---------------------------- MODULE Spec2Model ----------------------------
(***************************************************************************)
(* Single-point positioning core of GraphGNSSLib (RTKLIB pntpos.cpp):      *)
(* rescode, valsol, estpos, raim_fde, estvel and pntpos.                   *)
(*                                                                         *)
(* Numerics are carried in integers.  Ranges, pseudoranges and residuals   *)
(* are metres; variances are in units of 0.0025 m^2 (so 0.01 m^2 is 4 and  *)
(* SQR(ERR_CBIAS) = 0.09 m^2 is 36).  The receiver position is one integer *)
(* coordinate; geodist() shortens every range by it.  What the external    *)
(* collaborators return (satexclude, geodist, satazel, testsnr, ionocorr's *)
(* status, sat2freq, lsq, dops, chi-square comparison) is input drawn from *)
(* small sets.  A least-squares step dx is "small" (norm < 1E-4) exactly   *)
(* when it is zero.                                                        *)
(***************************************************************************)
EXTENDS Integers, Sequences, FiniteSets, TLC

VARIABLES
    pc,      \* position inside pntpos(): "call","satposs","estpos","raim","estvel","ret","done"
             \* ("rescode", "prange": the calls of rescode() and prange() on their own)
    obs,     \* obs[1..n]: observations with the per-satellite collaborator data
    opt,     \* processing options
    sol,     \* sol_t *sol of pntpos (in/out)
    msg,     \* char *msg of pntpos
    vsat,    \* int vsat[MAXOBS] of pntpos
    azel,    \* azel_ of pntpos (elevation part)
    resp,    \* resp of pntpos
    stat,    \* stat of pntpos
    ret,     \* value returned by pntpos (-1 while running)
    raim,    \* locals of raim_fde while it runs
    hist,    \* what ran during the call (ghost)
    rc       \* one call of rescode() or prange() on its own: its arguments and its result

vars == <<pc, obs, opt, sol, msg, vsat, azel, resp, stat, ret, raim, hist, rc>>

-----------------------------------------------------------------------------
(* Program constants *)

NX == 8
MAXITR == 10
MIN_EL == 1
RAIM_RMS0 == 100
RAIM_MINSAT == 5
RAIM_MINOBS == 6
VAR_CONSTR == 4
VAR_CBIAS == 36
FREQ1 == 2

(* Satellite numbering of satsys(): consecutive blocks per constellation *)
NSATGPS == 10
NSATGLO == 2
NSATGAL == 2
NSATQZS == 1
NSATCMP == 2
NSATIRN == 1
NSATSBS == 1

(* Bounds of the model *)
MaxSats == 6
MaxDupPos == 1
MaxResObs == 5
MaxP == 3
MaxBias == 2

-----------------------------------------------------------------------------
(* satsys(): constellation of a satellite number; SYS_NONE for 0 or out of range *)
SatSys(sat) ==
    IF sat <= 0 THEN "NONE"
    ELSE IF sat <= NSATGPS THEN "GPS"
    ELSE IF sat <= NSATGPS + NSATGLO THEN "GLO"
    ELSE IF sat <= NSATGPS + NSATGLO + NSATGAL THEN "GAL"
    ELSE IF sat <= NSATGPS + NSATGLO + NSATGAL + NSATQZS THEN "QZS"
    ELSE IF sat <= NSATGPS + NSATGLO + NSATGAL + NSATQZS + NSATCMP THEN "CMP"
    ELSE IF sat <= NSATGPS + NSATGLO + NSATGAL + NSATQZS + NSATCMP + NSATIRN THEN "IRN"
    ELSE IF sat <= NSATGPS + NSATGLO + NSATGAL + NSATQZS + NSATCMP + NSATIRN + NSATSBS THEN "SBS"
    ELSE "NONE"

(* 4*SQR(fact) of varerr(): EFACT_GLO = 1.5, EFACT_SBS = 3.0, EFACT_GPS = 1.0 *)
Fact2x4(sys) == IF sys = "GLO" THEN 9 ELSE IF sys = "SBS" THEN 36 ELSE 4

(* 1/sin(el) on the integer elevation scale (el >= MIN_EL) *)
InvSin(el) == 12 \div el

(* varerr(): pseudorange measurement error variance *)
VarErr(o, el, sys) ==
    LET e    == IF el < MIN_EL THEN MIN_EL ELSE el
        varr == o.err0sq * (o.err1sq + o.err2sq * InvSin(e))
        v2   == IF o.ionoopt = "IFLC" THEN varr * 9 ELSE varr
    IN  Fact2x4(sys) * v2

(* gamma of the dual-frequency combination, per constellation *)
Gamma(sys) == IF sys = "GLO" THEN 3 ELSE 2

(* variant of Prange: the dual-frequency path returns the difference P2 - P1 *)
PrangeDiff(ob, o) ==
    IF ob.P1 = 0 \/ (o.ionoopt = "IFLC" /\ ob.P2 = 0) THEN [P |-> 0, var |-> 0]
    ELSE IF o.ionoopt = "IFLC" THEN [P |-> ob.P2 - ob.P1, var |-> 0]
    ELSE [P |-> ob.P1, var |-> VAR_CBIAS]

(* prange(): pseudorange with code bias correction; 0 drops the satellite.
   dcb1, dcb2: the P1-C1 and P2-C2 biases added for the codes L1C and L2C
   (0 for other codes); bgd: what the F/NAV selection takes from P2 of
   Galileo (0 with I/NAV).  Returns [P, var]. *)
Prange(ob, o) ==
    LET sys == SatSys(ob.sat)
        dcb == sys \in {"GPS", "GLO"}
        P1  == IF dcb THEN ob.P1 + ob.dcb1 ELSE ob.P1
        P2  == IF dcb THEN ob.P2 + ob.dcb2 ELSE ob.P2
    IN  IF ob.P1 = 0 \/ (o.ionoopt = "IFLC" /\ ob.P2 = 0) THEN [P |-> 0, var |-> 0]
        ELSE IF o.ionoopt = "IFLC"
        THEN IF sys \in {"GPS", "QZS", "GLO", "IRN"}
             THEN [P |-> (P2 - Gamma(sys) * P1) \div (1 - Gamma(sys)), var |-> 0]
             ELSE IF sys = "GAL"
             THEN [P |-> ((P2 - ob.bgd) - Gamma(sys) * P1) \div (1 - Gamma(sys)), var |-> 0]
             ELSE IF sys = "CMP"
             THEN [P |-> ((P2 - Gamma(sys) * P1) - (ob.tgd2 - Gamma(sys) * ob.tgd))
                            \div (1 - Gamma(sys)), var |-> 0]
             ELSE [P |-> P1, var |-> 0]
        ELSE IF sys \in {"GPS", "QZS", "GAL", "CMP"}
             THEN [P |-> P1 - ob.tgd, var |-> VAR_CBIAS]
             ELSE IF sys = "GLO"
             THEN [P |-> P1 - ob.tgd \div (Gamma(sys) - 1), var |-> VAR_CBIAS]
             ELSE IF sys = "IRN"
             THEN [P |-> P1 - Gamma(sys) * ob.tgd, var |-> VAR_CBIAS]
             ELSE [P |-> P1, var |-> VAR_CBIAS]

(* geodist(): geometric distance for receiver position rr; <= 0 is an error *)
Geodist(ob, rr) == IF ob.rng <= 0 THEN 0 - 1 ELSE ob.rng - rr

(* variant of SysCol: no constellation has a column of its own *)
SysColNone(sys) == 3

(* column of the design matrix a row of a constellation has a 1 in besides
   the clock column 3: the column of its time offset, or 3 again *)
SysCol(sys) ==
    IF sys = "GLO" THEN 4 ELSE IF sys = "GAL" THEN 5
    ELSE IF sys = "CMP" THEN 6 ELSE IF sys = "IRN" THEN 7 ELSE 3

(* snrmask(): 1 when the observation passes the SNR mask (testsnr() != 0 rejects) *)
SnrMask(ob, o) ==
    IF ob.lowsnr1 THEN 0
    ELSE IF o.ionoopt = "IFLC" /\ ob.lowsnr2 THEN 0
    ELSE 1

(* ionocorr(): [ok, ion, var] *)
IonoCorr(ob, o) ==
    IF o.ionoopt = "BRDC" THEN [ok |-> TRUE, ion |-> ob.ion, var |-> 100 * ob.ion * ob.ion]
    ELSE IF o.ionoopt \in {"SBAS", "TEC"}
    THEN [ok |-> ob.ionok, ion |-> ob.ion, var |-> ob.ionvar]
    ELSE [ok |-> TRUE, ion |-> 0, var |-> IF o.ionoopt = "OFF" THEN 10000 ELSE 0]

(* tropcorr(): [ok, trp, var]; every path returns 1 *)
TropCorr(ob, el, o) ==
    IF o.tropopt \in {"SAAS", "EST", "ESTG"}
    THEN [ok |-> TRUE, trp |-> ob.trp, var |-> 36 * (12 \div (el + 1)) * (12 \div (el + 1))]
    ELSE IF o.tropopt = "SBAS" THEN [ok |-> TRUE, trp |-> ob.trp, var |-> ob.trpvar]
    ELSE [ok |-> TRUE, trp |-> 0, var |-> IF o.tropopt = "OFF" THEN 3600 ELSE 0]

(* the duplicate test of rescode(): the next record has the same satellite *)
DupNext(c, i) == i < c.n /\ c.obs[i].sat = c.obs[i + 1].sat

(* variant of Excluded: satexclude() never excludes *)
ExcludedNever(ob, o) == FALSE

(* satexclude() *)
Excluded(ob, o) == ob.excl

(* variant of ElMasked: the mask also rejects an elevation equal to elmin *)
ElMaskedLe(el, o) == el <= o.elmin

(* the elevation mask test of rescode(): satazel() < opt->elmin *)
ElMasked(el, o) == el < o.elmin

(* One satellite's gates and row inside the loop of rescode(), for C index
   i-1.  s carries nv (as Len(rows)), ns, the rows, vsat, azel, resp, mask
   and the locals dion, dtrp, vion, vtrp.  Returns [s, skip]: the state after
   the body and the number of indices consumed (2 after a duplicate). *)
ResBody(c, i, s) ==
    LET ob  == c.obs[i]
        sys == SatSys(ob.sat)
        s0  == [s EXCEPT !.vsat[i] = 0, !.azel[i] = 0, !.resp[i] = 0]
        r   == Geodist(ob, c.x.rr)
        up  == c.iter > 0
        s1  == IF up THEN [s0 EXCEPT !.azel[i] = ob.el] ELSE s0
        io  == IonoCorr(ob, c.opt)
        fs  == IF ob.freq = 0 THEN 0 ELSE (FREQ1 \div ob.freq) * (FREQ1 \div ob.freq)
        s2  == IF up /\ io.ok THEN [s1 EXCEPT !.dion = io.ion, !.vion = io.var] ELSE s1
        s3  == IF up THEN [s2 EXCEPT !.dion = @ * fs, !.vion = @ * fs] ELSE s2
        tr  == TropCorr(ob, ob.el, c.opt)
        s4  == IF up THEN [s3 EXCEPT !.dtrp = tr.trp, !.vtrp = tr.var] ELSE s3
        pr  == Prange(ob, c.opt)
        col == SysCol(sys)
        v   == pr.P - (r + c.x.dtr - ob.cdts + s4.dion + s4.dtrp)
               - (IF col = 3 THEN 0 ELSE c.x.off[col])
        row == [v |-> v, H |-> {3, col}, los |-> i,
                var |-> VarErr(c.opt, s4.azel[i], sys) + ob.vare + pr.var
                        + s4.vion + s4.vtrp]
    IN  IF sys = "NONE" THEN [s |-> s0, skip |-> 1]
        ELSE IF DupNext(c, i) THEN [s |-> s0, skip |-> 2]
        ELSE IF Excluded(ob, c.opt) THEN [s |-> s0, skip |-> 1]
        ELSE IF r <= 0 THEN [s |-> s0, skip |-> 1]
        ELSE IF up /\ ElMasked(ob.el, c.opt) THEN [s |-> s1, skip |-> 1]
        ELSE IF up /\ SnrMask(ob, c.opt) = 0 THEN [s |-> s1, skip |-> 1]
        ELSE IF up /\ ~io.ok THEN [s |-> s1, skip |-> 1]
        ELSE IF up /\ ob.freq = 0 THEN [s |-> s2, skip |-> 1]
        ELSE IF up /\ ~tr.ok THEN [s |-> s3, skip |-> 1]
        ELSE IF pr.P = 0 THEN [s |-> s4, skip |-> 1]
        ELSE [s |-> [s4 EXCEPT !.rows = Append(@, row), !.mask = @ \cup {col},
                               !.vsat[i] = 1, !.resp[i] = v, !.ns = @ + 1],
              skip |-> 1]

RECURSIVE ResLoop(_, _, _)
ResLoop(c, i, s) ==
    IF i > c.n THEN s
    ELSE LET b == ResBody(c, i, s) IN ResLoop(c, i + b.skip, b.s)

(* variant of Constraints: the loop stops one clock column early *)
RECURSIVE ConstraintsShort(_, _, _)
ConstraintsShort(rows, mask, col) ==
    IF col > NX - 2 THEN rows
    ELSE IF col \in mask THEN ConstraintsShort(rows, mask, col + 1)
    ELSE ConstraintsShort(Append(rows, [v |-> 0, H |-> {col}, los |-> 0, var |-> VAR_CONSTR]),
                          mask, col + 1)

(* the constraint rows of rescode() that keep H from being rank-deficient *)
RECURSIVE Constraints(_, _, _)
Constraints(rows, mask, col) ==
    IF col > NX - 1 THEN rows
    ELSE IF col \in mask THEN Constraints(rows, mask, col + 1)
    ELSE Constraints(Append(rows, [v |-> 0, H |-> {col}, los |-> 0, var |-> VAR_CONSTR]),
                     mask, col + 1)

(* what rescode() hands back: nv, *ns, the rows of v, H and var, and the
   caller's arrays *)
ResOut(s, rows) ==
    [nv |-> Len(rows), ns |-> s.ns, rows |-> rows,
     vsat |-> s.vsat, azel |-> s.azel, resp |-> s.resp]

(* the constraint loop at the end of rescode() *)
ResEnd(s) == ResOut(s, Constraints(s.rows, s.mask, 3))

(* rescode(): pseudorange residuals.  buf holds vsat, azel and resp as the
   caller passes them in; junk is the content of the uninitialized locals
   dion, dtrp, vion, vtrp.  Returns [nv, ns, rows, vsat, azel, resp]. *)
ResCode(iter, ob, n, x, o, buf, junk) ==
    ResEnd(ResLoop([iter |-> iter, obs |-> ob, n |-> n, x |-> x, opt |-> o], 1,
                   [rows |-> << >>, ns |-> 0, mask |-> {},
                    vsat |-> buf.vsat, azel |-> buf.azel, resp |-> buf.resp,
                    dion |-> junk, dtrp |-> junk, vion |-> junk, vtrp |-> junk]))

-----------------------------------------------------------------------------
(* Messages are tuples: the format string's text, then its arguments.
   << >> is the empty string. *)
NoMsg == << >>

(* variant of ValSol: a rejection writes no message *)
ValSolQuiet(nv, nx, chiBig, gdopBad, m) ==
    IF (nv > nx /\ chiBig) \/ gdopBad THEN [ok |-> 0, msg |-> m] ELSE [ok |-> 1, msg |-> m]

(* valsol(): chi-square test of the residuals, then the GDOP test.  chiBig is
   vv > chisqr[nv-nx-1]; gdopBad is dop[0] <= 0 or dop[0] > maxgdop.
   Returns [ok, msg]; msg is written on failure only (the arguments printed
   after nv are left out). *)
ValSol(nv, nx, chiBig, gdopBad, m) ==
    IF nv > nx /\ chiBig THEN [ok |-> 0, msg |-> <<"chi-square error nv=", nv>>]
    ELSE IF gdopBad THEN [ok |-> 0, msg |-> <<"gdop error nv=", nv>>]
    ELSE [ok |-> 1, msg |-> m]

(* state vector at the start of iteration j of estpos(): the seed sol->rr
   with zero clocks first, the iterate reached by the lsq steps afterwards *)
XAt(e, j) ==
    IF j = 0 THEN [rr |-> e.sol.rr, dtr |-> 0, off |-> [c \in 4..7 |-> 0]]
    ELSE e.orc.x

(* variant of Commit: nothing is stored before valsol() *)
CommitNone(e, x, ns) == e.sol

(* what estpos() stores in sol when the step is small, before valsol() *)
Commit(e, x, ns) ==
    [e.sol EXCEPT !.time = e.obs[1].time - x.dtr,
                  !.dtr = [c \in 3..7 |-> IF c = 3 THEN x.dtr ELSE x.off[c]],
                  !.rr = x.rr, !.vel = 0, !.qr = e.orc.q, !.ns = ns]

(* variant of SolStat: the status ignores opt->sateph *)
SolStatSingle(o) == "SINGLE"

(* solution status estpos() sets after a valid solution *)
SolStat(o) == IF o.sateph = "SBAS" THEN "SBAS" ELSE "SINGLE"

(* variant of LastIter: the loops stop one pass early *)
LastIterEarly(j) == j + 1 >= MAXITR - 1

(* the loop bound of estpos() and estvel(): pass j (from 0) is the last one *)
LastIter(j) == j + 1 >= MAXITR

RECURSIVE EstIter(_, _, _)

(* One pass of the iteration loop of estpos() after rescode() returned r in
   iteration j.
   e.orc says what lsq() does: before iteration e.orc.k every step is large;
   at iteration k lsq fails ("lsq"), the step is small ("conv") or steps
   stay large to the end ("step").
   Returns [stat, sol, buf, msg, iters, conv, nv, end] (iters: calls of
   rescode(); nv: rows of the last one; end: what ended the loop). *)
EstAfter(e, j, r) ==
    LET nb  == [vsat |-> r.vsat, azel |-> r.azel, resp |-> r.resp]
        val == ValSol(r.nv, NX, e.orc.val = "chi", e.orc.val = "gdop", e.msg)
        cs  == Commit(e, XAt(e, j), r.ns)
    IN  IF r.nv < NX
        THEN [stat |-> 0, sol |-> e.sol, buf |-> nb, iters |-> j + 1, conv |-> FALSE, nv |-> r.nv,
              msg |-> <<"lack of valid sats ns=", r.nv>>, end |-> "lack"]
        ELSE IF j >= e.orc.k /\ e.orc.ev = "lsq"
        THEN [stat |-> 0, sol |-> e.sol, buf |-> nb, iters |-> j + 1, conv |-> FALSE, nv |-> r.nv,
              msg |-> <<"lsq error info=", 0 - 1>>, end |-> "lsq"]
        ELSE IF j >= e.orc.k /\ e.orc.ev = "conv"
        THEN [stat |-> val.ok, buf |-> nb, iters |-> j + 1, conv |-> TRUE, nv |-> r.nv,
              sol |-> IF val.ok = 1 THEN [cs EXCEPT !.stat = SolStat(e.opt)] ELSE cs,
              msg |-> val.msg, end |-> "conv"]
        ELSE IF LastIter(j)
        THEN [stat |-> 0, sol |-> e.sol, buf |-> nb, iters |-> j + 1, conv |-> FALSE, nv |-> r.nv,
              msg |-> <<"iteration divergent i=", j + 1>>, end |-> "div"]
        ELSE EstIter(e, j + 1, nb)

(* the iteration loop of estpos() from iteration j on *)
EstIter(e, j, buf) ==
    EstAfter(e, j, ResCode(j, e.obs, e.n, XAt(e, j), e.opt, buf, e.junk))

(* estpos(): estimate receiver position *)
EstPos(ob, n, o, s, buf, m, orc, junk) ==
    EstIter([obs |-> ob, n |-> n, opt |-> o, sol |-> s, msg |-> m,
             orc |-> orc, junk |-> junk], 0, buf)

-----------------------------------------------------------------------------
(* raim_fde() *)

(* content of memory that was never written: kept as a mark until it is
   read, then any of the values below *)
Uninit == 0 - 999
UninitInt == {0, 1}
UninitDouble == {0, 3}
UninitMsg == <<"?">>
GarbageMsg == {<< >>, <<"garbage">>}

(* the arrays obs_e, rs_e, ... of raim_fde(): obs without C index i-1 *)
Compact(ob, i, m) == [k \in 1..(m - 1) |-> IF k < i THEN ob[k] ELSE ob[k + 1]]

(* an array of m values read where slots below m may never have been written *)
ReadArr(a, m, g) == [j \in DOMAIN a |-> IF j <= m /\ a[j] = Uninit THEN g ELSE a[j]]

(* the values a read of the slots below m of a can give for the mark *)
Garbage(a, m, G) ==
    IF \E j \in 1..m : a[j] = Uninit THEN G ELSE {CHOOSE g \in G : TRUE}

(* resp_e as the sum over the slots with vsat_e[j] != 0 reads it: only those
   slots are read *)
ReadResp(rp, vs, m, g) ==
    [j \in DOMAIN rp |-> IF j <= m /\ rp[j] = Uninit /\ vs[j] # 0 THEN g ELSE rp[j]]
GarbageResp(rp, vs, m, G) ==
    IF \E j \in 1..m : rp[j] = Uninit /\ vs[j] # 0 THEN G ELSE {CHOOSE g \in G : TRUE}

(* number of j < m with vsat_e[j] != 0 *)
RECURSIVE NvSat(_, _)
NvSat(vs, m) == IF m = 0 THEN 0 ELSE NvSat(vs, m - 1) + (IF vs[m] # 0 THEN 1 ELSE 0)

(* sum of SQR(resp_e[j]) over j < m with vsat_e[j] != 0 *)
RECURSIVE SumSq(_, _, _)
SumSq(vs, rp, m) ==
    IF m = 0 THEN 0
    ELSE SumSq(vs, rp, m - 1) + (IF vs[m] # 0 THEN rp[m] * rp[m] ELSE 0)

(* variant of RmsWorse: an equal rms is skipped as well *)
RmsWorseOrEqual(sq, nvs, best) == sq * best.den >= best.num * nvs

(* rms_e > rms, with rms_e = sqrt(sq/nvs) and rms*rms = best.num/best.den *)
RmsWorse(sq, nvs, best) == sq * best.den > best.num * nvs

(* "save result" of raim_fde(): slot k of the compact arrays goes to index j *)
Restore(full, part, i, m) ==
    [j \in 1..m |-> IF j = i THEN full[j] ELSE IF j < i THEN part[j] ELSE part[j - 1]]

(* the call of estpos() for the candidate that leaves out C index rm.i-1 *)
RaimEst(rm, ob, m, o, orc, junk) ==
    EstPos(Compact(ob, rm.i, m), m - 1, o, rm.sol_e,
           [vsat |-> rm.vsat_e, azel |-> rm.azel_e, resp |-> rm.resp_e],
           rm.msg_e, orc, junk)

(* The rest of one pass of the candidate loop of raim_fde() after estpos()
   returned e.  rm: the locals of raim_fde; p: sol, msg, vsat, azel, resp of
   the caller; gi, gd, gm: what reads of never-written slots of vsat_e,
   resp_e and of msg_e give.
   Returns [rm, p, qual, sq, nvs, saved] (qual: the candidate passed estpos
   and the satellite count; saved: it became the result). *)
RaimAfter(rm, p, ob, m, e, gi, gd, gm) ==
    LET i    == rm.i
        vse  == ReadArr(e.buf.vsat, m - 1, gi)
        rpe  == ReadResp(e.buf.resp, vse, m - 1, gd)
        mse  == IF e.msg = UninitMsg THEN gm ELSE e.msg
        rm1  == [rm EXCEPT !.i = i + 1, !.sol_e = e.sol, !.msg_e = e.msg,
                           !.vsat_e = e.buf.vsat, !.azel_e = e.buf.azel,
                           !.resp_e = e.buf.resp]
        rm2  == [rm1 EXCEPT !.vsat_e = vse, !.resp_e = rpe]
        nvs  == NvSat(vse, m - 1)
        sq   == SumSq(vse, rpe, m - 1)
        miss == [rm |-> rm1, p |-> p, qual |-> FALSE, sq |-> 0, nvs |-> 0,
                 saved |-> FALSE]
    IN  IF e.stat = 0 THEN miss
        ELSE IF nvs < RAIM_MINSAT THEN [miss EXCEPT !.rm = rm2]
        ELSE IF RmsWorse(sq, nvs, rm.rms)
        THEN [miss EXCEPT !.rm = rm2, !.qual = TRUE, !.sq = sq, !.nvs = nvs]
        ELSE [rm |-> [rm2 EXCEPT !.stat = 1, !.sat = ob[i].sat, !.msg_e = mse,
                                 !.rms = [num |-> sq, den |-> nvs]],
              p  |-> [sol  |-> e.sol,
                      msg  |-> mse,
                      azel |-> Restore(p.azel, e.buf.azel, i, m),
                      resp |-> Restore(p.resp, rpe, i, m),
                      vsat |-> [Restore(p.vsat, vse, i, m) EXCEPT ![i] = 0]],
              qual |-> TRUE, sq |-> sq, nvs |-> nvs, saved |-> TRUE]

(* sol_e = {{0}} *)
ZeroSol ==
    [stat |-> "NONE", time |-> 0, rr |-> 0, vel |-> 0,
     dtr |-> [c \in 3..7 |-> 0], qr |-> 0, qv |-> 0, ns |-> 0]

(* locals of raim_fde() at its entry: sol_e={{0}}, rms=100.0, azel_e=zeros();
   vsat_e, resp_e and msg_e are not initialized *)
RaimEntry(m) ==
    [i |-> 1, stat |-> 0, sat |-> 0, rms |-> [num |-> RAIM_RMS0 * RAIM_RMS0, den |-> 1],
     sol_e |-> ZeroSol, msg_e |-> UninitMsg,
     vsat_e |-> [j \in 1..m |-> Uninit], azel_e |-> [j \in 1..m |-> 0],
     resp_e |-> [j \in 1..m |-> Uninit]]

NoRaim == [i |-> 0, stat |-> 0, sat |-> 0]

-----------------------------------------------------------------------------
(* estvel() *)

(* resdop(): number of range-rate residuals *)
RECURSIVE ResDop(_, _, _)
ResDop(ob, vs, m) ==
    IF m = 0 THEN 0
    ELSE ResDop(ob, vs, m - 1)
         + (IF ob[m].D = 0 \/ ob[m].freq = 0 \/ vs[m] = 0 \/ ~ob[m].moving THEN 0 ELSE 1)

(* variant of EstVelIter: the velocity is stored whatever ends the loop *)
EstVelEager(e, j) ==
    [sol |-> [e.sol EXCEPT !.vel = e.orc.v, !.qv = e.orc.q], iters |-> j + 1, ev |-> "conv"]

(* The iteration loop of estvel() from pass j on.  e.orc says what lsq()
   does: before pass e.orc.k every step is large; at pass k lsq fails
   ("lsq"), the step is small ("conv") or steps stay large to the end
   ("step").
   Returns [sol, iters, ev]: iters counts the calls of resdop(), ev says what
   ended the loop ("few": fewer than 4 residuals). *)
RECURSIVE EstVelIter(_, _)
EstVelIter(e, j) ==
    IF ResDop(e.obs, e.vsat, e.n) < 4
    THEN [sol |-> e.sol, iters |-> j + 1, ev |-> "few"]
    ELSE IF j >= e.orc.k /\ e.orc.ev = "lsq"
    THEN [sol |-> e.sol, iters |-> j + 1, ev |-> "lsq"]
    ELSE IF j >= e.orc.k /\ e.orc.ev = "conv"
    THEN [sol |-> [e.sol EXCEPT !.vel = e.orc.v, !.qv = e.orc.q], iters |-> j + 1,
          ev |-> "conv"]
    ELSE IF LastIter(j)
    THEN [sol |-> e.sol, iters |-> j + 1, ev |-> "step"]
    ELSE EstVelIter(e, j + 1)

(* estvel(): estimate receiver velocity *)
EstVel(ob, m, o, s, az, vs, orc) ==
    EstVelIter([obs |-> ob, n |-> m, opt |-> o, sol |-> s, azel |-> az, vsat |-> vs,
                orc |-> orc], 0)

-----------------------------------------------------------------------------
(* Inputs *)

(* an observation that passes every gate of rescode(), with what the
   collaborators return for it: satexclude (excl), geodist at rr = 0 (rng),
   satazel (el), testsnr (lowsnr1, lowsnr2), ionocorr/ionmodel (ionok, ion,
   ionvar), sat2freq (freq), tropmodel (trp, trpvar), satposs (cdts: CLIGHT
   times the clock bias, vare, moving: nonzero velocity), gettgd (tgd, tgd2) *)
GoodObs(sat) ==
    [sat |-> sat, time |-> 50, P1 |-> 1000, P2 |-> 1000, D |-> 1,
     tgd |-> 0, tgd2 |-> 0, bgd |-> 0, dcb1 |-> 0, dcb2 |-> 0,
     excl |-> FALSE, rng |-> 1000, el |-> 3,
     lowsnr1 |-> FALSE, lowsnr2 |-> FALSE, ionok |-> TRUE, ion |-> 0, ionvar |-> 0,
     freq |-> FREQ1, trp |-> 0, trpvar |-> 0, cdts |-> 0, vare |-> 0, moving |-> TRUE]

DefaultOpt ==
    [mode |-> "SINGLE", ionoopt |-> "BRDC", tropopt |-> "SAAS", sateph |-> "BRDC",
     elmin |-> 2, posopt4 |-> FALSE, err0sq |-> 1, err1sq |-> 1, err2sq |-> 1]

(* sol as the caller passes it in *)
CallerSol ==
    [stat |-> "FIX", time |-> 0, rr |-> 0, vel |-> 7,
     dtr |-> [c \in 3..7 |-> 0], qr |-> 0 - 1, qv |-> 0 - 1, ns |-> 0]

(* positions the iteration reaches; they set the size of the residuals *)
PosChoices == {1, 2, 150}

XOf(rr) == [rr |-> rr, dtr |-> 0, off |-> [c \in 4..7 |-> 0]]

(* what lsq(), the chi-square comparison and dops() do in one run of
   estpos(); q stands for the covariance Q *)
Oracle(k, ev, val, rr) == [k |-> k, ev |-> ev, val |-> val, x |-> XOf(rr), q |-> 1]

EstOracles ==
    {Oracle(1, "lsq", "ok", 1), Oracle(0, "step", "ok", 1),
     Oracle(1, "conv", "chi", 1), Oracle(1, "conv", "gdop", 1)}
    \cup {Oracle(1, "conv", "ok", rr) : rr \in PosChoices}

(* the caller may seed sol->rr with the solution: the step of the direct run
   can be small in iteration 0 already; azel is still zero then, so dops()
   finds no satellite above the mask and valsol() reports a gdop error *)
SeedOracles == {Oracle(0, "conv", "gdop", 1)}

(* the uninitialized dion, dtrp, vion, vtrp of rescode() reach its result
   only in iteration 0 *)
JunkFor(orc) == IF orc.k = 0 /\ orc.ev # "step" THEN UninitDouble ELSE {0}

(* what lsq() does in one run of estvel(); v and q stand for the velocity and
   its covariance *)
VelOracles ==
    {[k |-> 1, ev |-> ev, v |-> 10, q |-> 1] : ev \in {"lsq", "conv", "step"}}

(* observation lists in satellite order: m satellites 1, 2, ... of which
   those in dup have a second record right after the first *)
SatList(m, dup) ==
    LET len == m + Cardinality(dup)
        F[j \in 0..len] ==
            IF j = 0 THEN << >>
            ELSE LET prev == F[j - 1]
                     last == IF prev = << >> THEN 0 ELSE prev[Len(prev)]
                     twice == Len(prev) >= 2 /\ prev[Len(prev) - 1] = last
                 IN  IF last \in dup /\ ~twice /\ last > 0
                     THEN Append(prev, last)
                     ELSE Append(prev, last + 1)
    IN  F[len]

(* the observations of one call: all good, all excluded by satexclude(), or
   all below the elevation mask *)
ObsKinds == {"good", "excl", "low"}
KindObs(sat, kind) ==
    IF kind = "excl" THEN [GoodObs(sat) EXCEPT !.excl = TRUE]
    ELSE IF kind = "low" THEN [GoodObs(sat) EXCEPT !.el = 1]
    ELSE GoodObs(sat)

(* history of the call: how often each callee ran, the return value of the
   direct estpos() (direct), the candidate raim_fde() saved last (win), the
   first and the last candidate with the smallest rms so far among those with
   a valid solution, five satellites and rms <= 100 (first, last, gmin), and
   of the last run
   of estpos() its return value, the rows of its last rescode() and its
   message buffer (run, nv, runmsg), its calls of rescode() and what ended
   its loop (iters, end);
   vsat and azel as the last of estpos() and raim_fde() left them (left) and
   as estvel() got them (used); of estvel() what ended its loop, its calls of
   resdop() and sol and msg before it ran (vel); what the direct estpos() left, until
   raim_fde() saves a candidate over it (kept); whether a candidate passed
   estpos() with five satellites in its solution and rms <= 100 (tq); sol and
   the compact arrays of the candidate raim_fde() saved last (wsol, wbuf) *)
NoSnap == [set |-> FALSE]
NoHist ==
    [satposs |-> 0, estpos |-> 0, raim |-> 0, cands |-> 0, estvel |-> 0,
     direct |-> 0 - 1, win |-> 0, first |-> 0, last |-> 0,
     gmin |-> [num |-> 0, den |-> 0],
     run |-> 0 - 1, nv |-> 0, runmsg |-> NoMsg, iters |-> 0, end |-> "none",
     left |-> NoSnap, used |-> NoSnap, vel |-> NoSnap, kept |-> NoSnap,
     tq |-> FALSE, wsol |-> NoSnap, wbuf |-> NoSnap]

IdleRc == [phase |-> "idle"]

-----------------------------------------------------------------------------
(* pntpos() *)

n == Len(obs)

(* opt_ of pntpos(): precise positioning modes force the corrections *)
OptEff(o) ==
    IF o.mode # "SINGLE" THEN [o EXCEPT !.ionoopt = "BRDC", !.tropopt = "SAAS"] ELSE o

(* observation lists of up to MaxSats satellites; the first MaxDupPos of
   them may have a duplicated record *)
ObsLists(kinds) ==
    UNION {{[j \in 1..(m + Cardinality(dup)) |-> KindObs(SatList(m, dup)[j], kind)] :
              dup \in SUBSET {d \in 1..m : d <= MaxDupPos}, kind \in kinds} :
           m \in 0..MaxSats}
Opts ==
    {[DefaultOpt EXCEPT !.sateph = se, !.posopt4 = p4] :
       se \in {"BRDC", "SBAS"}, p4 \in BOOLEAN}

InitWith(lists, opts) ==
    /\ pc = "call"
    /\ obs \in lists
    /\ opt \in opts
    /\ sol = CallerSol
    /\ msg = <<"?">>
    /\ vsat = [j \in 1..Len(obs) |-> 0]
    /\ azel = [j \in 1..Len(obs) |-> 0]
    /\ resp = [j \in 1..Len(obs) |-> Uninit]
    /\ stat = 0
    /\ ret = 0 - 1
    /\ raim = NoRaim
    /\ hist = NoHist
    /\ rc = IdleRc

Init == InitWith(ObsLists(ObsKinds), Opts)

(* variant of Entry: no message for n <= 0 *)
EntryQuiet ==
    /\ pc = "call"
    /\ sol' = [sol EXCEPT !.stat = "NONE", !.time = IF n <= 0 THEN @ ELSE obs[1].time]
    /\ msg' = NoMsg
    /\ ret' = IF n <= 0 THEN 0 ELSE ret
    /\ pc' = IF n <= 0 THEN "done" ELSE "satposs"
    /\ UNCHANGED <<obs, opt, vsat, azel, resp, stat, raim, hist, rc>>

(* entry of pntpos() up to the allocation of the work arrays *)
Entry ==
    /\ pc = "call"
    /\ IF n <= 0
       THEN /\ sol' = [sol EXCEPT !.stat = "NONE"]
            /\ msg' = <<"no observation data">>
            /\ ret' = 0
            /\ pc' = "done"
       ELSE /\ sol' = [sol EXCEPT !.stat = "NONE", !.time = obs[1].time]
            /\ msg' = NoMsg
            /\ ret' = ret
            /\ pc' = "satposs"
    /\ UNCHANGED <<obs, opt, vsat, azel, resp, stat, raim, hist, rc>>

(* satposs(): its results are the fields of obs *)
SatPoss ==
    /\ pc = "satposs"
    /\ hist' = [hist EXCEPT !.satposs = @ + 1]
    /\ pc' = "estpos"
    /\ UNCHANGED <<obs, opt, sol, msg, vsat, azel, resp, stat, ret, raim, rc>>

(* variant of RaimGate: no lower bound on the number of observations *)
RaimGateAny(st, m, o) == st = 0 /\ o.posopt4

(* the test that starts raim_fde(): !stat&&n>=6&&opt->posopt[4] *)
RaimGate(st, m, o) == st = 0 /\ m >= RAIM_MINOBS /\ o.posopt4

(* the direct estpos() and the test that starts raim_fde() *)
EstPosStep ==
    /\ pc = "estpos"
    /\ \E orc \in EstOracles \cup SeedOracles :
         \E junk \in JunkFor(orc) :
           \E e \in {EstPos(obs, n, OptEff(opt), sol,
                            [vsat |-> vsat, azel |-> azel, resp |-> resp], msg, orc, junk)} :
             /\ sol' = e.sol
             /\ msg' = e.msg
             /\ vsat' = e.buf.vsat
             /\ azel' = e.buf.azel
             /\ resp' = e.buf.resp
             /\ stat' = e.stat
             /\ hist' = [hist EXCEPT
                   !.estpos = @ + 1, !.direct = e.stat,
                   !.run = e.stat, !.nv = e.nv, !.runmsg = e.msg, !.iters = e.iters,
                   !.end = e.end,
                   !.left = [set |-> TRUE, vsat |-> e.buf.vsat, azel |-> e.buf.azel],
                   !.kept = [set |-> TRUE, conv |-> e.conv, stat |-> e.stat,
                             sol |-> e.sol, msg |-> e.msg, vsat |-> e.buf.vsat,
                             azel |-> e.buf.azel, resp |-> e.buf.resp]]
             /\ IF RaimGate(e.stat, n, opt)
                THEN /\ pc' = "raim"
                     /\ raim' = RaimEntry(n)
                ELSE /\ pc' = "estvel"
                     /\ raim' = raim
    /\ UNCHANGED <<obs, opt, ret, rc>>

(* rms_e <= 100 and below the smallest so far *)
Below(sq, nvs, g) ==
    /\ sq <= RAIM_RMS0 * RAIM_RMS0 * nvs
    /\ (g.den = 0 \/ sq * g.den < g.num * nvs)

(* rms_e <= 100 and equal to the smallest so far *)
Level(sq, nvs, g) ==
    /\ sq <= RAIM_RMS0 * RAIM_RMS0 * nvs
    /\ g.den # 0 /\ sq * g.den = g.num * nvs

(* one candidate of raim_fde() *)
RaimCand ==
    /\ pc = "raim"
    /\ raim.i <= n
    /\ \E orc \in EstOracles :
         \E junk \in JunkFor(orc) :
           \E e \in {RaimEst(raim, obs, n, OptEff(opt), orc, junk)} :
             \E gi \in IF e.stat = 0 THEN {0} ELSE Garbage(e.buf.vsat, n - 1, UninitInt),
                gm \in IF e.stat # 0 /\ e.msg = UninitMsg THEN GarbageMsg ELSE {NoMsg} :
              \E gd \in GarbageResp(e.buf.resp, ReadArr(e.buf.vsat, n - 1, gi),
                                     n - 1, UninitDouble) :
               \E t \in {RaimAfter(raim, [sol |-> sol, msg |-> msg, vsat |-> vsat,
                                          azel |-> azel, resp |-> resp],
                                   obs, n, e, gi, gd, gm)} :
                 /\ raim' = t.rm
                 /\ sol' = t.p.sol
                 /\ msg' = t.p.msg
                 /\ vsat' = t.p.vsat
                 /\ azel' = t.p.azel
                 /\ resp' = t.p.resp
                 /\ hist' = [hist EXCEPT
                       !.raim = 1, !.cands = @ + 1,
                       !.run = e.stat, !.nv = e.nv, !.runmsg = e.msg, !.iters = e.iters,
                   !.end = e.end,
                       !.left = [set |-> TRUE, vsat |-> t.p.vsat, azel |-> t.p.azel],
                       !.kept = IF t.saved THEN NoSnap ELSE @,
                       !.tq = @ \/ (e.stat = 1 /\ e.sol.ns >= RAIM_MINSAT
                                     /\ t.sq <= RAIM_RMS0 * RAIM_RMS0 * t.nvs),
                       !.wsol = IF t.saved THEN [set |-> TRUE, sol |-> e.sol] ELSE @,
                       !.wbuf = IF t.saved
                                THEN [set |-> TRUE, vsat |-> t.rm.vsat_e,
                                      azel |-> t.rm.azel_e, resp |-> t.rm.resp_e]
                                ELSE @,
                       !.win = IF t.saved THEN raim.i ELSE @,
                       !.first = IF t.qual /\ Below(t.sq, t.nvs, hist.gmin)
                                 THEN raim.i ELSE @,
                       !.last = IF t.qual /\ (Below(t.sq, t.nvs, hist.gmin)
                                              \/ Level(t.sq, t.nvs, hist.gmin))
                                THEN raim.i ELSE @,
                       !.gmin = IF t.qual /\ Below(t.sq, t.nvs, hist.gmin)
                                THEN [num |-> t.sq, den |-> t.nvs] ELSE @]
    /\ pc' = pc
    /\ UNCHANGED <<obs, opt, stat, ret, rc>>

(* end of raim_fde(): the arrays are freed and stat is returned *)
RaimReturn ==
    /\ pc = "raim"
    /\ raim.i > n
    /\ stat' = raim.stat
    /\ raim' = [i |-> 0, stat |-> raim.stat, sat |-> raim.sat]
    /\ hist' = [hist EXCEPT !.raim = 1]
    /\ pc' = "estvel"
    /\ UNCHANGED <<obs, opt, sol, msg, vsat, azel, resp, ret, rc>>

(* variant of EstVelStep: estvel() runs on the branch of a valid position only *)
EstVelOnSuccess ==
    /\ pc = "estvel"
    /\ \E orc \in VelOracles :
         \E ev \in {EstVel(obs, n, OptEff(opt), sol, azel, vsat, orc)} :
           IF stat # 0
           THEN /\ sol' = ev.sol
                /\ hist' = [hist EXCEPT
                      !.estvel = @ + 1,
                      !.used = [set |-> TRUE, vsat |-> vsat, azel |-> azel],
                      !.vel = [set |-> TRUE, ev |-> ev.ev, iters |-> ev.iters,
                         sol |-> sol, msg |-> msg]]
           ELSE /\ sol' = sol
                /\ hist' = hist
    /\ pc' = "ret"
    /\ UNCHANGED <<obs, opt, msg, vsat, azel, resp, stat, ret, raim, rc>>

(* estvel(), called on both branches of if (stat) *)
EstVelStep ==
    /\ pc = "estvel"
    /\ \E orc \in VelOracles :
         \E ev \in {EstVel(obs, n, OptEff(opt), sol, azel, vsat, orc)} :
           /\ sol' = ev.sol
           /\ hist' = [hist EXCEPT
                 !.estvel = @ + 1,
                 !.used = [set |-> TRUE, vsat |-> vsat, azel |-> azel],
                 !.vel = [set |-> TRUE, ev |-> ev.ev, iters |-> ev.iters,
                         sol |-> sol, msg |-> msg]]
    /\ pc' = "ret"
    /\ UNCHANGED <<obs, opt, msg, vsat, azel, resp, stat, ret, raim, rc>>

(* return stat *)
Return ==
    /\ pc = "ret"
    /\ ret' = stat
    /\ pc' = "done"
    /\ UNCHANGED <<obs, opt, sol, msg, vsat, azel, resp, stat, raim, hist, rc>>

Next == Entry \/ SatPoss \/ EstPosStep \/ RaimCand \/ RaimReturn \/ EstVelStep \/ Return

Spec == Init /\ [][Next]_vars

(* the guards of the actions of Next: pntpos() has a statement to execute *)
Running == pc \in {"call", "satposs", "estpos", "raim", "estvel", "ret"}

(* pntpos() is sequential code on one thread: while it has not returned it
   goes on executing.  The fairness condition is WF_vars(Next) with
   ENABLED <<Next>>_vars written out as Running (each action is enabled
   whenever its test of pc and raim.i holds) and a step of Next written as a
   change of vars (every step that changes vars is a step of Next). *)
SpecLive == Init /\ [][Next]_vars /\ ([]<>(~Running) \/ []<><<TRUE>>_vars)

-----------------------------------------------------------------------------
(* rescode() on its own: one call per behaviour, the caller's arrays not yet
   written *)

(* satellites of the calls: five of GPS, one each of GLONASS, Galileo,
   BeiDou and NavIC *)
ResSats ==
    {1, 2, 3, 4, 5, NSATGPS + 1, NSATGPS + NSATGLO + 1,
     NSATGPS + NSATGLO + NSATGAL + NSATQZS + 1,
     NSATGPS + NSATGLO + NSATGAL + NSATQZS + NSATCMP + 1}

(* records sorted by satellite, as sortobs() leaves them *)
ResLists ==
    UNION {{l \in [1..k -> ResSats] : \A j \in 1..(k - 1) : l[j] <= l[j + 1]} :
           k \in 0..MaxResObs}

(* what makes the first record fail one gate *)
Defects == {"nosys", "excl", "range", "snr", "iono", "freq", "code"}
Defect(ob, d) ==
    IF d = "nosys" THEN [ob EXCEPT !.sat = 0]
    ELSE IF d = "excl" THEN [ob EXCEPT !.excl = TRUE]
    ELSE IF d = "range" THEN [ob EXCEPT !.rng = 0]
    ELSE IF d = "snr" THEN [ob EXCEPT !.lowsnr1 = TRUE]
    ELSE IF d = "iono" THEN [ob EXCEPT !.ionok = FALSE]
    ELSE IF d = "freq" THEN [ob EXCEPT !.freq = 0]
    ELSE IF d = "code" THEN [ob EXCEPT !.P1 = 0]
    ELSE ob

(* iteration, elevation of every record, defect of the first record *)
ResCases ==
    {[iter |-> it, el |-> el, defect |-> "none"] : it \in 0..2, el \in 1..3}
    \cup {[iter |-> it, el |-> 3, defect |-> d] : it \in 0..1, d \in Defects}

ResObs(l, cs) ==
    [j \in 1..Len(l) |->
       LET ob == [GoodObs(l[j]) EXCEPT !.el = cs.el]
       IN  IF j = 1 THEN Defect(ob, cs.defect) ELSE ob]

(* ionocorr() can fail with the SBAS model only *)
ResOpt(cs) == IF cs.defect = "iono" THEN [DefaultOpt EXCEPT !.ionoopt = "SBAS"] ELSE DefaultOpt

UnwrittenBuf(m) ==
    [vsat |-> [j \in 1..m |-> Uninit], azel |-> [j \in 1..m |-> Uninit],
     resp |-> [j \in 1..m |-> Uninit]]

InitRes ==
    /\ pc = "rescode"
    /\ obs = << >>
    /\ opt = DefaultOpt
    /\ sol = CallerSol
    /\ msg = NoMsg
    /\ vsat = << >>
    /\ azel = << >>
    /\ resp = << >>
    /\ stat = 0
    /\ ret = 0 - 1
    /\ raim = NoRaim
    /\ hist = NoHist
    /\ \E l \in ResLists, cs \in ResCases, junk \in UninitDouble :
         rc = [phase |-> "in", iter |-> cs.iter, obs |-> ResObs(l, cs), opt |-> ResOpt(cs),
               junk |-> junk, out |-> << >>]

(* the call of rescode() at the start of an iteration of estpos() *)
ResCodeStep ==
    /\ rc.phase = "in"
    /\ rc' = [rc EXCEPT !.phase = "out",
                        !.out = ResCode(rc.iter, rc.obs, Len(rc.obs), XOf(0), rc.opt,
                                        UnwrittenBuf(Len(rc.obs)), rc.junk)]
    /\ UNCHANGED <<pc, obs, opt, sol, msg, vsat, azel, resp, stat, ret, raim, hist>>

NextRes == ResCodeStep

SpecRes == InitRes /\ [][NextRes]_vars

-----------------------------------------------------------------------------
(* prange() on its own: one observation, and the same observation with a
   common bias b on both pseudoranges *)

(* one satellite of each constellation *)
PrSats ==
    {1, NSATGPS + 1, NSATGPS + NSATGLO + 1, NSATGPS + NSATGLO + NSATGAL + 1,
     NSATGPS + NSATGLO + NSATGAL + NSATQZS + 1,
     NSATGPS + NSATGLO + NSATGAL + NSATQZS + NSATCMP + 1,
     NSATGPS + NSATGLO + NSATGAL + NSATQZS + NSATCMP + NSATIRN + 1}

(* pseudoranges P1, P2 and the bias data d of the navigation message *)
PrObs(sat, P1, P2, d) ==
    [GoodObs(sat) EXCEPT !.P1 = P1, !.P2 = P2, !.tgd = d, !.tgd2 = 2 * d,
                         !.bgd = d, !.dcb1 = d, !.dcb2 = 3 * d]

Biased(ob, b) == [ob EXCEPT !.P1 = @ + b, !.P2 = @ + b]

InitPr ==
    /\ pc = "prange"
    /\ obs = << >>
    /\ opt = DefaultOpt
    /\ sol = CallerSol
    /\ msg = NoMsg
    /\ vsat = << >>
    /\ azel = << >>
    /\ resp = << >>
    /\ stat = 0
    /\ ret = 0 - 1
    /\ raim = NoRaim
    /\ hist = NoHist
    /\ \E sat \in PrSats, P1 \in 0..MaxP, P2 \in 0..MaxP, d \in 0..1,
          b \in (0 - MaxBias)..MaxBias, io \in {"IFLC", "BRDC"} :
         rc = [phase |-> "in", ob |-> PrObs(sat, P1, P2, d), b |-> b,
               opt |-> [DefaultOpt EXCEPT !.ionoopt = io], out |-> << >>, outb |-> << >>]

(* the call of prange() in rescode(), for the observation and for the biased
   observation *)
PrangeStep ==
    /\ pc = "prange"
    /\ rc.phase = "in"
    /\ rc' = [rc EXCEPT !.phase = "out",
                        !.out = Prange(rc.ob, rc.opt),
                        !.outb = Prange(Biased(rc.ob, rc.b), rc.opt)]
    /\ UNCHANGED <<pc, obs, opt, sol, msg, vsat, azel, resp, stat, ret, raim, hist>>

NextPr == PrangeStep

SpecPr == InitPr /\ [][NextPr]_vars

-----------------------------------------------------------------------------
(* Properties of pntpos() *)

Done == pc = "done"
ValidCount == Cardinality({i \in 1..n : vsat[i] = 1})

(* C1: pntpos returns 1 exactly when an estpos run returned a valid
   solution that was kept (the direct run, or the candidate raim_fde
   selected); on return 1 sol.stat is SBAS when opt.sateph is SBAS and SINGLE
   otherwise, on return 0 it is NONE. *)
C1_ReturnIffValidRun ==
    Done =>
      /\ ret \in {0, 1}
      /\ (ret = 1) <=> (hist.direct = 1 \/ (hist.direct = 0 /\ hist.win > 0))
      /\ ret = 1 => sol.stat = (IF opt.sateph = "SBAS" THEN "SBAS" ELSE "SINGLE")
      /\ ret = 0 => sol.stat = "NONE"

C1_Witness ==
    /\ Done /\ ret = 1 /\ hist.direct = 0 /\ hist.win > 1
    /\ opt.sateph = "SBAS" /\ sol.stat = "SBAS"

(* C2: whenever pntpos returns 1, msg is the empty string. *)
C2_MsgEmptyOnSuccess == Done /\ ret = 1 => msg = NoMsg

(* C3: after pntpos returns 1 the number of indices with vsat[i] = 1 equals
   sol.ns. *)
C3_ValidCountIsNs == Done /\ ret = 1 => ValidCount = sol.ns

(* C4 as stated: the candidate raim_fde commits is the earliest one that
   attains the minimum rms; a later candidate of equal rms does not replace
   it. *)
C4_EarliestMinimumKept ==
    hist.win = hist.first

(* C4, amended: raim_fde skips a candidate only when its rms is greater than
   the best so far, so a later candidate of equal rms replaces the earlier
   one: the committed candidate, excluded satellite and rms are those of
   the latest candidate that attains the minimum rms. *)
C4_LatestMinimumKept ==
    /\ hist.win = hist.last
    /\ hist.win > 0 =>
         /\ raim.sat = obs[hist.win].sat
         /\ vsat[hist.win] = 0
         /\ pc = "raim" => raim.rms.num * hist.gmin.den = hist.gmin.num * raim.rms.den

C4_Witness ==
    /\ Done /\ ret = 1
    /\ hist.first > 0 /\ hist.first < hist.last /\ hist.win = hist.last

(* C6: whenever pntpos returns 0, msg is not empty and sol.stat is NONE. *)
C6_FailureHasMessage ==
    Done /\ ret = 0 => msg # NoMsg /\ sol.stat = "NONE"

C6_Witness ==
    /\ Done /\ ret = 0 /\ hist.raim = 1 /\ hist.cands = n
    /\ hist.run = 1 /\ hist.win = 0
    /\ msg = <<"chi-square error nv=", n + NX - 4>>

(* C9: pntpos called with n = 0 returns 0 with the message "no observation
   data" and sol.stat NONE, and none of satposs, estpos, raim_fde and estvel
   runs. *)
C9_NoObservation ==
    n = 0 =>
      /\ hist.satposs = 0 /\ hist.estpos = 0 /\ hist.raim = 0 /\ hist.estvel = 0
      /\ pc \in {"call", "done"}
      /\ Done => ret = 0 /\ msg = <<"no observation data">> /\ sol.stat = "NONE"

C9_Witness == Done /\ n = 0 /\ ret = 0 /\ opt.posopt4

(* a record that fails a gate of rescode() in every iteration *)
Rejected(ob) == SatSys(ob.sat) = "NONE" \/ ob.excl \/ ob.rng <= 0 \/ ob.P1 = 0
AllRejected == n > 0 /\ \A j \in 1..n : Rejected(obs[j])

(* C10: when every observation is rejected by the gates of rescode, pntpos
   returns 0 and msg starts with "lack of valid sats", with RAIM-FDE enabled
   or not; and every run of estpos whose last rescode returned fewer than NX
   rows failed with that message. *)
C10_LackOfValidSats ==
    /\ Done /\ AllRejected => ret = 0 /\ msg # NoMsg /\ msg[1] = "lack of valid sats ns="
    /\ hist.run >= 0 /\ hist.nv < NX =>
         hist.run = 0 /\ hist.runmsg = <<"lack of valid sats ns=", hist.nv>>

C10_Witness ==
    /\ Done /\ AllRejected /\ n >= RAIM_MINOBS /\ opt.posopt4
    /\ hist.raim = 1 /\ hist.cands = n /\ ret = 0

(* C12: in every call of pntpos with n > 0 estvel runs exactly once, after
   estpos and, when raim_fde runs, after its last candidate, whether the
   position estimate succeeded or failed; the vsat and azel it gets are those
   the last of these steps left. *)
C12_EstVelOnceAfterPosition ==
    n > 0 =>
      /\ hist.estvel <= 1
      /\ (pc \in {"ret", "done"}) <=> (hist.estvel = 1)
      /\ hist.estvel = 1 =>
           /\ hist.estpos = 1
           /\ hist.raim = 1 => hist.cands = n /\ raim.i = 0
           /\ hist.used = hist.left

C12_Witness ==
    /\ Done /\ n > 0 /\ ret = 0 /\ hist.estvel = 1
    /\ hist.raim = 1 /\ hist.cands = n /\ hist.used.vsat = vsat

(* C13: estvel stores the velocity and its covariance only in a pass whose
   step is small; with fewer than 4 range-rate residuals, an lsq error or
   MAXITR passes of large steps it leaves them as they were; it never changes
   the position, sol.stat, sol.ns or msg. *)
C13_EstVelFrame ==
    hist.vel.set =>
      /\ msg = hist.vel.msg
      /\ sol = [hist.vel.sol EXCEPT !.vel = sol.vel, !.qv = sol.qv]
      /\ hist.vel.ev # "conv" => sol = hist.vel.sol
      /\ hist.vel.ev = "conv" => \E orc \in VelOracles : sol.vel = orc.v /\ sol.qv = orc.q
      /\ (hist.vel.ev = "few") <=> (ResDop(obs, vsat, n) < 4)
      /\ hist.vel.ev = "step" => hist.vel.iters = MAXITR

C13_Witness ==
    /\ Done /\ ret = 0 /\ hist.vel.set /\ hist.vel.ev = "conv"
    /\ hist.vel.sol.vel = CallerSol.vel /\ sol.vel # CallerSol.vel
    /\ sol.rr = CallerSol.rr /\ sol.stat = "NONE"

(* the counts behind C14 *)
BoundedRuns ==
    /\ hist.run >= 0 =>
         /\ hist.iters \in 1..MAXITR
         /\ hist.end = "div" =>
              /\ hist.run = 0 /\ hist.iters = MAXITR
              /\ hist.runmsg = <<"iteration divergent i=", MAXITR>>
         /\ hist.run = 0 /\ hist.end # "div" =>
              hist.runmsg[1] # "iteration divergent i="
    /\ hist.estpos <= 1 /\ hist.cands <= n
    /\ pc \in {"estvel", "ret", "done"} /\ hist.raim = 1 => hist.cands = n
    /\ hist.raim = 0 => hist.cands = 0
    /\ hist.vel.set => hist.vel.iters \in 1..MAXITR

(* C14: every call of pntpos terminates; a run of estpos makes at most
   MAXITR calls of rescode and, when all of them complete without
   convergence, returns 0 with "iteration divergent i=10"; raim_fde runs
   estpos exactly n times; estvel makes at most MAXITR calls of resdop. *)
C14_Terminates == <>Done /\ []BoundedRuns

C14_Witness ==
    /\ Done /\ hist.raim = 1 /\ hist.cands = n /\ n >= RAIM_MINOBS
    /\ hist.end = "div" /\ hist.iters = MAXITR /\ hist.run = 0
    /\ hist.vel.set /\ hist.vel.ev = "step" /\ hist.vel.iters = MAXITR

(* raim_fde runs only after a failed direct estpos, with n >= 6 and
   opt.posopt[4] set *)
RaimOnlyWhenGated ==
    /\ (pc = "raim" \/ hist.raim = 1) =>
         hist.direct = 0 /\ n >= RAIM_MINOBS /\ opt.posopt4
    /\ pc \in {"estvel", "ret", "done"} /\ n > 0 =>
         (hist.raim = 1 <=> (hist.direct = 0 /\ n >= RAIM_MINOBS /\ opt.posopt4))

(* C16 as stated: raim_fde runs only when the direct estpos returned 0,
   n >= 6 and opt.posopt[4] is set; otherwise the return value, sol, vsat,
   azel and msg of pntpos are exactly those the direct estpos left. *)
C16_NoRaimAllAsDirect ==
    /\ RaimOnlyWhenGated
    /\ Done /\ n > 0 /\ hist.raim = 0 =>
         /\ hist.kept.set /\ ret = hist.kept.stat /\ msg = hist.kept.msg
         /\ vsat = hist.kept.vsat /\ azel = hist.kept.azel
         /\ sol = hist.kept.sol

(* C16, amended: as stated, but for the velocity: estvel runs after the
   gate in every call, so sol is the one the direct estpos left except for
   sol.rr[3..5] and sol.qv, which hold what estvel stored when it converged. *)
C16_NoRaimAsDirectButVelocity ==
    /\ RaimOnlyWhenGated
    /\ Done /\ n > 0 /\ hist.raim = 0 =>
         /\ hist.kept.set /\ ret = hist.kept.stat /\ msg = hist.kept.msg
         /\ vsat = hist.kept.vsat /\ azel = hist.kept.azel /\ resp = hist.kept.resp
         /\ sol = [hist.kept.sol EXCEPT !.vel = sol.vel, !.qv = sol.qv]
         /\ hist.vel.ev # "conv" => sol = hist.kept.sol
         /\ hist.vel.ev = "conv" =>
              \E orc \in VelOracles : sol.vel = orc.v /\ sol.qv = orc.q

C16_Witness ==
    /\ Done /\ hist.raim = 0 /\ hist.direct = 0 /\ opt.posopt4 /\ n = RAIM_MINOBS - 1
    /\ hist.vel.ev = "conv" /\ sol # hist.kept.sol /\ ret = 0

(* C17: raim_fde returns 1 if and only if a candidate passed estpos with at
   least 5 contributing satellites and an rms not above 100; then sol is the
   one of the selected candidate, its rms is the minimum over the qualifying
   candidates, vsat of the excluded index is 0, and vsat, azel and resp of
   every other index are those of its slot in the candidate's arrays. *)
C17_RaimSelectsBestQualifying ==
    pc = "raim" /\ raim.i > n =>
      /\ (raim.stat = 1) <=> hist.tq
      /\ raim.stat = 1 =>
           /\ hist.win > 0 /\ sol = hist.wsol.sol
           /\ raim.rms.num * hist.gmin.den = hist.gmin.num * raim.rms.den
           /\ vsat[hist.win] = 0
           /\ \A i \in (1..n) \ {hist.win} :
                LET k == IF i < hist.win THEN i ELSE i - 1
                IN  /\ vsat[i] = hist.wbuf.vsat[k]
                    /\ azel[i] = hist.wbuf.azel[k]
                    /\ resp[i] = hist.wbuf.resp[k]

(* C19: when the direct estpos failed and raim_fde did not run or saved no
   candidate, pntpos returns 0 with sol.stat NONE.  If that estpos converged
   and valsol rejected the solution, sol holds the rejected solution
   (position, clocks, covariance, ns, time; the velocity was set to 0 before
   estvel ran); on the other failure paths these fields are the caller's,
   apart from sol.time = obs[0].time. *)
C19_RejectedSolutionStays ==
    Done /\ n > 0 /\ hist.kept.set /\ hist.kept.stat = 0 =>
      /\ ret = 0 /\ sol.stat = "NONE"
      /\ sol = [hist.kept.sol EXCEPT !.vel = sol.vel, !.qv = sol.qv]
      /\ hist.kept.conv =>
           /\ \E orc \in EstOracles \cup SeedOracles :
                /\ sol.rr = (IF orc.k = 0 THEN CallerSol.rr ELSE orc.x.rr)
                /\ sol.qr = orc.q
                /\ sol.dtr = [c \in 3..7 |-> IF c = 3 THEN orc.x.dtr ELSE orc.x.off[c]]
                /\ sol.time = obs[1].time - orc.x.dtr
           /\ sol.ns = ValidCount
           /\ hist.vel.sol.vel = 0
      /\ ~hist.kept.conv =>
           /\ sol.rr = CallerSol.rr /\ sol.dtr = CallerSol.dtr /\ sol.qr = CallerSol.qr
           /\ sol.ns = CallerSol.ns /\ sol.time = obs[1].time
           /\ hist.vel.sol.vel = CallerSol.vel

C19_Witness ==
    /\ Done /\ hist.kept.set /\ hist.kept.conv /\ hist.kept.stat = 0
    /\ hist.raim = 1 /\ hist.cands = n /\ ret = 0 /\ sol.stat = "NONE"
    /\ sol.rr # CallerSol.rr /\ sol.qr # CallerSol.qr /\ sol.ns = n

-----------------------------------------------------------------------------
(* Properties of rescode() *)

Returned == rc.phase = "out"
HasRow(i) == \E k \in 1..Len(rc.out.rows) : rc.out.rows[k].los = i
PseudoRows == Cardinality({k \in 1..Len(rc.out.rows) : rc.out.rows[k].los = 0})

(* a record that passes every gate but the elevation mask, with no record of
   the same satellite next to it *)
Sound(i) ==
    LET ob == rc.obs[i]
    IN  /\ SatSys(ob.sat) # "NONE" /\ ~ob.excl /\ ob.rng > 0 /\ ob.P1 # 0
        /\ ~ob.lowsnr1 /\ ob.ionok /\ ob.freq # 0
        /\ i > 1 => rc.obs[i - 1].sat # ob.sat
        /\ i < Len(rc.obs) => rc.obs[i + 1].sat # ob.sat

(* C5: for every index i with obs[i].sat = obs[i+1].sat neither record
   contributes a residual row or gets vsat = 1, runs of three or more equal
   satellites included. *)
C5_DuplicatesBothDropped ==
    Returned =>
      \A i \in 1..(Len(rc.obs) - 1) :
        rc.obs[i].sat = rc.obs[i + 1].sat =>
          \A k \in {i, i + 1} : rc.out.vsat[k] # 1 /\ ~HasRow(k)

(* C7 as stated: in iterations after the first a satellite whose elevation
   equals opt.elmin is rejected. *)
C7_ElevationAtMaskRejected ==
    Returned /\ rc.iter > 0 =>
      \A i \in 1..Len(rc.obs) :
        rc.obs[i].el = rc.opt.elmin => rc.out.vsat[i] # 1 /\ ~HasRow(i)

(* C7, amended: the mask rejects elevations below opt.elmin only: in
   iterations after the first a satellite at exactly opt.elmin that passes
   the other gates is kept (a residual row, vsat = 1), one below is rejected. *)
C7_ElevationAtMaskKept ==
    Returned /\ rc.iter > 0 =>
      \A i \in 1..Len(rc.obs) :
        /\ Sound(i) /\ rc.obs[i].el = rc.opt.elmin => rc.out.vsat[i] = 1 /\ HasRow(i)
        /\ Sound(i) /\ rc.obs[i].el < rc.opt.elmin => rc.out.vsat[i] = 0 /\ ~HasRow(i)

C7_Witness ==
    /\ Returned /\ rc.iter > 0
    /\ \E i \in 1..Len(rc.obs) :
         Sound(i) /\ rc.obs[i].el = rc.opt.elmin /\ rc.out.vsat[i] = 1 /\ HasRow(i)

(* five GPS satellites that all pass the gates, and no other record *)
FiveGps ==
    /\ Len(rc.obs) = 5
    /\ \A i \in 1..5 : SatSys(rc.obs[i].sat) = "GPS" /\ Sound(i)
    /\ rc.iter > 0 => \A i \in 1..5 : rc.obs[i].el >= rc.opt.elmin

(* C8 as stated: with five GPS satellites that pass the gates and no other
   constellation rescode returns nv = 5 + 3. *)
C8_FiveGpsThreePseudoRows ==
    Returned /\ FiveGps => rc.out.nv = 5 + 3

(* C8, amended: the constraint loop covers NX-3 = 5 clock columns, of which
   GPS fills one: four pseudo-observation rows are appended, nv = 5 + 4. *)
C8_FiveGpsFourPseudoRows ==
    Returned /\ FiveGps => rc.out.nv = 5 + 4 /\ PseudoRows = 4 /\ rc.out.ns = 5

C8_Witness == Returned /\ FiveGps /\ rc.iter > 0 /\ rc.out.nv = 5 + 4

(* a record that passes the gates rescode() applies in iteration 0 *)
Sound0(i) ==
    LET ob == rc.obs[i]
    IN  /\ SatSys(ob.sat) # "NONE" /\ ~ob.excl /\ ob.rng > 0 /\ ob.P1 # 0
        /\ i > 1 => rc.obs[i - 1].sat # ob.sat
        /\ i < Len(rc.obs) => rc.obs[i + 1].sat # ob.sat

(* C15: in iteration 0 rescode applies no elevation mask, SNR mask,
   ionospheric or tropospheric model: every record that passes the other
   gates gets a row, and the residual and variance of each row come from
   geometry and code bias only, v = P - (r + dtr - CLIGHT*dts) and
   var = varerr + vare + vmeas, the ionospheric and tropospheric delay and
   variance terms being zero. *)
C15_BootstrapGeometryOnly ==
    Returned /\ rc.iter = 0 =>
      /\ \A i \in 1..Len(rc.obs) : Sound0(i) => rc.out.vsat[i] = 1 /\ HasRow(i)
      /\ \A k \in 1..Len(rc.out.rows) :
           LET row == rc.out.rows[k]
               ob  == rc.obs[row.los]
               pr  == Prange(ob, rc.opt)
           IN  row.los > 0 =>
                 /\ row.v = pr.P - (Geodist(ob, XOf(0).rr) + XOf(0).dtr - ob.cdts)
                 /\ row.var = VarErr(rc.opt, 0, SatSys(ob.sat)) + ob.vare + pr.var

(* the clock or offset column of a constellation's group *)
GroupCol(sys) ==
    IF sys = "GLO" THEN 4 ELSE IF sys = "GAL" THEN 5
    ELSE IF sys = "CMP" THEN 6 ELSE IF sys = "IRN" THEN 7 ELSE 3

(* a satellite of the group of column c contributed a row *)
GroupSeen(c) ==
    \E k \in 1..Len(rc.out.rows) :
      rc.out.rows[k].los > 0 /\ GroupCol(SatSys(rc.obs[rc.out.rows[k].los].sat)) = c

PseudoRowsOf(c) ==
    {k \in 1..Len(rc.out.rows) : rc.out.rows[k].los = 0 /\ c \in rc.out.rows[k].H}

(* C18: after every call of rescode each column 3..7 of H has a row with a
   1 in it: a real row has a 1 in column 3 and at most one more, in the
   column of its constellation; for each of the five groups without a
   contributing satellite exactly one pseudo-observation row is appended,
   with residual 0, a single 1 in the group's column and variance 0.01; so
   nv = ns + the number of unseen groups. *)
C18_ClockColumnsCovered ==
    Returned =>
      /\ \A c \in 3..(NX - 1) : \E k \in 1..Len(rc.out.rows) : c \in rc.out.rows[k].H
      /\ \A k \in 1..Len(rc.out.rows) :
           LET row == rc.out.rows[k]
           IN  IF row.los > 0
               THEN row.H = {3, GroupCol(SatSys(rc.obs[row.los].sat))}
               ELSE /\ row.v = 0 /\ row.var = VAR_CONSTR
                    /\ \E c \in 3..(NX - 1) : row.H = {c}
      /\ \A c \in 3..(NX - 1) :
           Cardinality(PseudoRowsOf(c)) = (IF GroupSeen(c) THEN 0 ELSE 1)
      /\ rc.out.nv = rc.out.ns + Cardinality({c \in 3..(NX - 1) : ~GroupSeen(c)})
      /\ rc.out.nv = Len(rc.out.rows)

C18_Witness ==
    /\ Returned /\ rc.iter > 0 /\ rc.out.ns >= 2
    /\ ~GroupSeen(3) /\ GroupSeen(4) /\ GroupSeen(6)
    /\ Cardinality(PseudoRowsOf(3)) = 1 /\ rc.out.nv = rc.out.ns + 3

-----------------------------------------------------------------------------
(* Properties of prange() *)

PrReturned == pc = "prange" /\ rc.phase = "out"

(* the dual-frequency path with both pseudoranges present, in one of its
   constellation branches *)
DualBranch ==
    /\ rc.opt.ionoopt = "IFLC" /\ rc.ob.P1 # 0 /\ rc.ob.P2 # 0
    /\ SatSys(rc.ob.sat) \in {"GPS", "QZS", "GLO", "GAL", "CMP", "IRN"}

(* C11 as stated: with ionoopt = IFLC and P1, P2 nonzero the value prange
   returns is unchanged when the same bias b is added to P1 and P2, in every
   constellation branch of the dual-frequency path. *)
C11_CommonBiasRemoved ==
    PrReturned /\ DualBranch => rc.outb.P = rc.out.P

(* C11, amended: the combination (P2 - gamma*P1)/(1 - gamma) has weights that
   sum to one, so a bias b common to P1 and P2 passes through: the value
   prange returns rises by exactly b in every constellation branch (and is 0
   when a biased pseudorange is 0). *)
C11_CommonBiasKept ==
    PrReturned /\ DualBranch =>
      IF rc.ob.P1 + rc.b = 0 \/ rc.ob.P2 + rc.b = 0
      THEN rc.outb.P = 0
      ELSE rc.outb.P = rc.out.P + rc.b /\ rc.outb.var = 0

C11_Witness ==
    /\ PrReturned /\ DualBranch /\ SatSys(rc.ob.sat) = "GLO" /\ rc.b > 0
    /\ rc.ob.P1 # rc.ob.P2 /\ rc.ob.dcb1 # 0
    /\ rc.outb.P = rc.out.P + rc.b /\ rc.outb.P # rc.out.P

=============================================================================
